---- MODULE Spec2Model ----
(***************************************************************************)
(* Model of the Gemini PyQt chat application (src/src/gemini.py, with the  *)
(* earlier two-mode version in src/gemini.py).                             *)
(*                                                                         *)
(* Text is a tuple of one-character strings, so that strip, split, the     *)
(* substring test of the undo override and the LIKE match of the history   *)
(* search are computed character by character as the code computes them.   *)
(* The two SQLite tables are sequences of rows in rowid order.             *)
(***************************************************************************)
EXTENDS Integers, Sequences, FiniteSets, TLC

VARIABLES
    history,     \* table chat_history: rows [id, question, answer, created_at] in rowid order
    seq,         \* sqlite_sequence entry of chat_history (AUTOINCREMENT high-water mark)
    issued,      \* history variable: every id chat_history has ever handed out
    facts,       \* table user_facts: rows [key, value] in rowid order
    now,         \* wall clock, in ticks of 1/TicksPerSecond second
    apiKey,      \* module global API_KEY is set
    client,      \* self.client is not None
    chat,        \* self.chat: <<>> for None, else <<[instr |-> seed system instruction]>>
    user_facts,  \* self.user_facts
    mode,        \* comboBox.currentText()
    filePath,    \* lineEdit_file.text()
    display,     \* calls made on txtBrowserResult since the event loop last dispatched an event
    stack,       \* local variables of the handlers waiting in processEvents, innermost last
    last,        \* what the last operation was, what it called and what came back
    budget       \* operations still allowed in this run

vars == <<history, seq, issued, facts, now, apiKey, client, chat, user_facts,
          mode, filePath, display, stack, last, budget>>

----------------------------------------------------------------------------
(* Bounds of the model                                                     *)

MaxOps == 2
MaxWaiting == 2
MaxElapsed == 2
TicksPerSecond == 2

(* Program constants                                                       *)

SearchLimit == 50
PromptCut == 100

----------------------------------------------------------------------------
(* Text                                                                    *)

(* The characters str.strip() removes, those str.isspace() holds for: the
   ASCII ones, and the others as tokens named by their code point *)
Whitespace ==
    {" ", "\t", "\n", "\r", "\f", "<U+000B>", "<U+001C>", "<U+001D>", "<U+001E>", "<U+001F>",
     "<U+0085>", "<U+00A0>", "<U+1680>", "<U+2000>", "<U+2001>", "<U+2002>", "<U+2003>",
     "<U+2004>", "<U+2005>", "<U+2006>", "<U+2007>", "<U+2008>", "<U+2009>", "<U+200A>",
     "<U+2028>", "<U+2029>", "<U+202F>", "<U+205F>", "<U+3000>"}

RECURSIVE lstrip(_)
lstrip(s) == IF s # <<>> /\ Head(s) \in Whitespace THEN lstrip(Tail(s)) ELSE s

RECURSIVE rstrip(_)
rstrip(s) ==
    IF s # <<>> /\ s[Len(s)] \in Whitespace THEN rstrip(SubSeq(s, 1, Len(s) - 1)) ELSE s

(* Mutant: the text is taken as typed *)
strip_nothing(s) == s

strip(s) == rstrip(lstrip(s))

Take(s, n) == IF Len(s) <= n THEN s ELSE SubSeq(s, 1, n)

IsPrefix(p, s) == Len(p) <= Len(s) /\ SubSeq(s, 1, Len(p)) = p

(* Python's `sub in s` *)
Contains(s, sub) ==
    \E i \in 1..(Len(s) - Len(sub) + 1) : SubSeq(s, i, i + Len(sub) - 1) = sub

(* Python's s.split(sep, 1): the text before the first sep and, if there is one, the rest *)
(* Mutant: str.partition, which yields a second part even without sep *)
split1_as_partition(s, sep) ==
    IF \E i \in 1..Len(s) : s[i] = sep
    THEN LET i == CHOOSE j \in 1..Len(s) : s[j] = sep /\ \A k \in 1..(j - 1) : s[k] # sep
         IN  <<SubSeq(s, 1, i - 1), SubSeq(s, i + 1, Len(s))>>
    ELSE <<s, <<>>>>

split1(s, sep) ==
    IF \E i \in 1..Len(s) : s[i] = sep
    THEN LET i == CHOOSE j \in 1..Len(s) : s[j] = sep /\ \A k \in 1..(j - 1) : s[k] # sep
         IN  <<SubSeq(s, 1, i - 1), SubSeq(s, i + 1, Len(s))>>
    ELSE <<s>>

Capitals ==
    <<"A", "B", "C", "D", "E", "F", "G", "H", "I", "J", "K", "L", "M",
      "N", "O", "P", "Q", "R", "S", "T", "U", "V", "W", "X", "Y", "Z">>

Smalls ==
    <<"a", "b", "c", "d", "e", "f", "g", "h", "i", "j", "k", "l", "m",
      "n", "o", "p", "q", "r", "s", "t", "u", "v", "w", "x", "y", "z">>

AsciiUpper == {Capitals[i] : i \in 1..26}

AsciiLowerOf == [c \in AsciiUpper |-> Smalls[CHOOSE i \in 1..26 : Capitals[i] = c]]

(* Case folding of SQLite's LIKE: the 26 ASCII letters only *)
AsciiLower(c) == IF c \in AsciiUpper THEN AsciiLowerOf[c] ELSE c

(* Python's str.lower(), which also folds letters outside ASCII; "E'" and
   "e'" stand for the capital and the small e with acute accent *)
PyLowerChar(c) == IF c = "E'" THEN "e'" ELSE AsciiLower(c)

lower(s) == [i \in 1..Len(s) |-> PyLowerChar(s[i])]

(* SQLite's `s LIKE p` without ESCAPE: % is any run of characters, _ any one character *)
RECURSIVE LikeMatch(_, _)
LikeMatch(p, s) ==
    IF p = <<>> THEN s = <<>>
    ELSE IF Head(p) = "%"
         THEN LikeMatch(Tail(p), s) \/ (s # <<>> /\ LikeMatch(p, Tail(s)))
    ELSE IF s = <<>> THEN FALSE
    ELSE IF Head(p) = "_" THEN LikeMatch(Tail(p), Tail(s))
    ELSE AsciiLower(Head(p)) = AsciiLower(Head(s)) /\ LikeMatch(Tail(p), Tail(s))

----------------------------------------------------------------------------
(* Store: chat_history                                                     *)

Ids(h) == {h[i].id : i \in 1..Len(h)}

SetMax(S) == CHOOSE m \in S : \A x \in S : x <= m

(* strftime('%Y-%m-%d %H:%M:%S') of the clock: the instant cut to whole seconds *)
created_at_of(t) == t \div TicksPerSecond

(* Mutant: a plain INTEGER PRIMARY KEY, one more than the largest rowid in the table *)
next_id_without_autoincrement(h, s) == (IF h = <<>> THEN 0 ELSE SetMax(Ids(h))) + 1

(* INTEGER PRIMARY KEY AUTOINCREMENT: one more than the larger of the largest
   rowid in the table and the largest rowid ever handed out *)
next_id(h, s) == (IF h = <<>> THEN s ELSE IF SetMax(Ids(h)) > s THEN SetMax(Ids(h)) ELSE s) + 1

(* io = FALSE is the except branch: the INSERT raised, nothing is written *)
save_chat_entry(h, s, question, answer, t, io) ==
    IF io
    THEN [history |-> Append(h, [id |-> next_id(h, s), question |-> question,
                                 answer |-> answer, created_at |-> created_at_of(t)]),
          seq |-> next_id(h, s)]
    ELSE [history |-> h, seq |-> s]

(* Mutant: ORDER BY id ASC, the oldest row goes *)
delete_first_entry(h, io) ==
    IF io /\ h # <<>>
    THEN LET record_id == CHOOSE i \in Ids(h) : \A j \in Ids(h) : i <= j
             keep(r) == r.id # record_id
         IN  [history |-> SelectSeq(h, keep), ret |-> <<record_id>>]
    ELSE [history |-> h, ret |-> <<>>]

(* io = FALSE is the except branch: nothing is deleted and None returned,
   as on an empty table *)
delete_last_entry(h, io) ==
    IF io /\ h # <<>>
    THEN LET record_id == SetMax(Ids(h))
             keep(r) == r.id # record_id
         IN  [history |-> SelectSeq(h, keep), ret |-> <<record_id>>]
    ELSE [history |-> h, ret |-> <<>>]

(* Mutant: ORDER BY created_at ASC *)
RECURSIVE order_by_created_at_asc(_, _)
order_by_created_at_asc(rows, t) ==
    IF t < 0 THEN <<>>
    ELSE LET at(r) == r.created_at = t
         IN  order_by_created_at_asc(rows, t - 1) \o SelectSeq(rows, at)

(* ORDER BY created_at DESC; rows of one second stay in rowid order *)
RECURSIVE order_by_created_at_desc(_, _)
order_by_created_at_desc(rows, t) ==
    IF t < 0 THEN <<>>
    ELSE LET at(r) == r.created_at = t
         IN  SelectSeq(rows, at) \o order_by_created_at_desc(rows, t - 1)

(* SELECT created_at, question, answer: the columns of a result row *)
Shown(r) == [created_at |-> r.created_at, question |-> r.question, answer |-> r.answer]

(* io = FALSE is the except branch: the empty list *)
search_history_by_keyword(h, keyword, io) ==
    LET search_like == <<"%">> \o keyword \o <<"%">>
        where(r) == LikeMatch(search_like, r.question) \/ LikeMatch(search_like, r.answer)
        hits == SelectSeq(h, where)
        top == IF hits = <<>> THEN 0 ELSE SetMax({hits[i].created_at : i \in 1..Len(hits)})
        results == Take(order_by_created_at_desc(hits, top), SearchLimit)
    IN  IF io THEN [i \in 1..Len(results) |-> Shown(results[i])] ELSE <<>>

----------------------------------------------------------------------------
(* Store: user_facts                                                       *)

Keys(f) == {f[i].key : i \in 1..Len(f)}

(* Mutant: a plain INSERT into a table without the primary key *)
add_fact_row(f, key, value, io) ==
    IF io THEN [facts |-> Append(f, [key |-> key, value |-> value]), ret |-> TRUE]
    ELSE [facts |-> f, ret |-> FALSE]

(* INSERT OR REPLACE on the primary key: the row of that key, if any, is
   removed and the new row gets a fresh rowid, at the end of the table *)
add_or_update_fact(f, key, value, io) ==
    IF io
    THEN LET other(r) == r.key # key
         IN  [facts |-> Append(SelectSeq(f, other), [key |-> key, value |-> value]),
              ret |-> TRUE]
    ELSE [facts |-> f, ret |-> FALSE]

(* Mutant: changes >= 0 *)
delete_fact_always_true(f, key, io) ==
    LET other(r) == r.key # key
    IN  IF io THEN [facts |-> SelectSeq(f, other), ret |-> TRUE]
        ELSE [facts |-> f, ret |-> FALSE]

(* DELETE ... WHERE fact_key = ?; rowcount tells whether a row went.
   io = FALSE is the except branch: False, nothing deleted *)
delete_fact(f, key, io) ==
    LET other(r) == r.key # key
    IN  IF io THEN [facts |-> SelectSeq(f, other), ret |-> Len(SelectSeq(f, other)) < Len(f)]
        ELSE [facts |-> f, ret |-> FALSE]

(* io = FALSE is the except branch: the empty dict *)
get_user_facts_map(f, io) ==
    IF io THEN [k \in Keys(f) |-> (CHOOSE r \in {f[i] : i \in 1..Len(f)} : r.key = k).value]
    ELSE [k \in {} |-> <<>>]

(* The fixed Korean instruction texts of lines 87 and 89, each one token,
   given here in translation *)
GenericInstruction == <<"You are a general conversational AI.">>
FactsPreamble == <<"You are talking with this user. Remember these facts about the user and use them: ">>
FactsClosing == <<". Answer in a friendly and humorous tone.">>

RECURSIVE join_facts(_)
join_facts(f) ==
    IF f = <<>> THEN <<>>
    ELSE f[1].key \o <<":", " ">> \o f[1].value
         \o (IF Len(f) > 1 THEN <<",", " ">> \o join_facts(Tail(f)) ELSE <<>>)

(* io = FALSE is the except branch: the generic instruction *)
get_contextual_facts(f, io) ==
    IF io /\ f # <<>> THEN FactsPreamble \o join_facts(f) \o FactsClosing
    ELSE GenericInstruction

----------------------------------------------------------------------------
(* Literal texts of the program.  A Korean syllable is one character,     *)
(* written here as its romanisation between angle brackets.               *)

KwErase == <<"<ji>", "<wo>", "<jwo>">>
KwDelete == <<"<sak>", "<je>">>
KwCancel == <<"<chwi>", "<so>">>
UndoKeywords == {KwErase, KwDelete, KwCancel}

ViewCommands == {<<"<bo>", "<gi>">>, <<"<hwak>", "<in>">>, <<"l", "i", "s", "t">>}
CmdAdd == <<"<chu>", "<ga>">>
CmdReset == <<"<jae>", "<seol>", "<jeong>">>

Request == <<"<yo>", "<cheong>">>
Response == <<"<eung>", "<dap>">>
Ellipsis == <<".", ".", ".">>

Tag(name, kind) == <<"[">> \o name \o <<" ">> \o kind \o <<"]", " ">>

TagSummary == <<"<yo>", "<yak>">>
TagCode == <<"<ko>", "<deu>">>
TagWeb == <<"<wep>", " ", "<geom>", "<saek>">>
TagData == <<"<de>", "<i>", "<teo>", " ", "<bun>", "<seok>">>
TagImage == <<"<i>", "<mi>", "<ji>", " ", "<bun>", "<seok>">>
TagWorkflow == <<"<wo>", "<keu>", "<peul>", "<lo>", "<u>">>

(* line 455, one token *)
DefaultImageQuestion == <<"Describe this image in detail.">>

Modes == {"chat", "search", "summarize", "code", "web", "facts", "data", "image", "agent"}
FileModes == {"data", "image"}

----------------------------------------------------------------------------
(* What one operation did: the handler that ran, the calls it made on the  *)
(* API and on the store, and what they returned.                           *)

Blank ==
    [act |-> "", input |-> <<>>, handler |-> "", text |-> <<>>, value |-> <<>>,
     api |-> "none", apiOk |-> FALSE, instr |-> <<>>,
     db |-> <<>>, io |-> TRUE, rd |-> TRUE, ret |-> <<>>, rows |-> <<>>, had |-> FALSE, reset |-> FALSE,
     appended |-> <<>>]

Show(op, msg, text) == [op |-> op, msg |-> msg, text |-> text]

(* The fields a handler reads and writes *)
Cur ==
    [history |-> history, seq |-> seq, facts |-> facts, client |-> client, chat |-> chat,
     user_facts |-> user_facts, filePath |-> filePath,
     display |-> IF stack = <<>> THEN <<>> ELSE display, pending |-> <<>>, tr |-> Blank]

----------------------------------------------------------------------------
(* Session                                                                 *)

(* Mutant: a failed construction drops the session but keeps the old client *)
init_gemini_client_keeping_client(s, ok) ==
    IF ~apiKey THEN s
    ELSE IF ok
         THEN [s EXCEPT !.client = TRUE, !.chat = <<[instr |-> s.user_facts]>>]
         ELSE [s EXCEPT !.chat = <<>>]

(* ok: genai.Client and chats.create both returned *)
init_gemini_client(s, ok) ==
    IF ~apiKey THEN s
    ELSE IF ok
         THEN [s EXCEPT !.client = TRUE, !.chat = <<[instr |-> s.user_facts]>>]
         ELSE [s EXCEPT !.client = FALSE, !.chat = <<>>]

(* rd: the SELECT of get_contextual_facts went through *)
reset_chat_session(s, rd, ok) ==
    LET s1 == [s EXCEPT !.user_facts = get_contextual_facts(s.facts, rd),
                        !.tr.db = Append(@, "get_contextual_facts"), !.tr.rd = rd]
        s2 == init_gemini_client(s1, ok)
    IN  [s2 EXCEPT !.display = Append(s2.display, Show("append", "session_reset", <<>>)),
                   !.tr.reset = TRUE]

----------------------------------------------------------------------------
(* Handlers.  Each takes the fields s it works on and the outcomes of the  *)
(* calls it makes: resp is <<>> when the API call raised and <<text>> when *)
(* it returned response.text = text; io says whether the statement on the  *)
(* database went through; rd the same for the SELECT of a session rebuild; *)
(* ok whether a client and a session could be created.                     *)
(*                                                                         *)
(* A handler that shows a placeholder calls QApplication.processEvents()   *)
(* before its try block.  The events waiting then are dispatched inside    *)
(* that call, so the handler is cut in two: the part up to processEvents,  *)
(* which leaves its local variables in s.pending, and its try block, which *)
(* runs on those variables when processEvents returns.                     *)

Ran(s, name) == [s EXCEPT !.tr.handler = name]

Say(s, op, msg, text) == [s EXCEPT !.display = Append(@, Show(op, msg, text))]

(* the local variables of a handler waiting in processEvents: the question
   it will save, what it puts before the answer it saves and whether the
   saved answer is cut, and the image path *)
Frame(name, question, answerTag, cutAnswer, image_path) ==
    [handler |-> name, input |-> <<>>, question |-> question, tag |-> answerTag,
     cut |-> cutAnswer, path |-> image_path, events |-> 0]

(* lineEdit.clear(), txtBrowserResult.append(placeholder), processEvents() *)
Suspend(s, f) ==
    [Say(Ran(s, f.handler), "append", "placeholder", f.question) EXCEPT !.pending = <<f>>]

Save(s, question, answer, io) ==
    LET r == save_chat_entry(s.history, s.seq, question, answer, now, io)
    IN  [s EXCEPT !.history = r.history, !.seq = r.seq,
                  !.tr.db = Append(@, "save_chat_entry"), !.tr.io = io,
                  !.tr.text = question, !.tr.value = answer,
                  !.tr.appended = IF io THEN <<r.history[Len(r.history)]>> ELSE <<>>]

(* Mutant: the undo also drops the session, to make the model forget *)
app_delete_last_entry_dropping_session(s, io) ==
    LET r == delete_last_entry(s.history, io)
        s1 == [Ran(s, "delete_last_entry") EXCEPT
                  !.history = r.history, !.chat = <<>>,
                  !.tr.db = Append(@, "delete_last_entry"), !.tr.io = io, !.tr.ret = r.ret]
    IN  Say(s1, "append", IF r.ret # <<>> THEN "undo_done" ELSE "undo_none", <<>>)

app_delete_last_entry(s, io) ==
    LET r == delete_last_entry(s.history, io)
        s1 == [Ran(s, "delete_last_entry") EXCEPT
                  !.history = r.history,
                  !.tr.db = Append(@, "delete_last_entry"), !.tr.io = io, !.tr.ret = r.ret]
    IN  Say(s1, "append", IF r.ret # <<>> THEN "undo_done" ELSE "undo_none", <<>>)

(* lines 418-426 *)
send_question(s, question) ==
    IF s.chat = <<>> \/ question = <<>> THEN Ran(s, "send_question")
    ELSE Suspend(s, Frame("send_question", question, <<>>, FALSE, <<>>))

(* Mutant: a failed INSERT raises into the handler's except branch *)
send_question_try_save_raises(s, f, resp, io) ==
    LET s0 == Ran(s, f.handler)
    IN  IF s.chat = <<>> THEN Say(s0, "replace_last_line", "api_error", <<>>)
        ELSE LET s1 == [s0 EXCEPT !.tr.api = "send_message", !.tr.instr = s.chat[1].instr]
             IN  IF resp = <<>>
                 THEN Say(s1, "replace_last_line", "api_error", <<>>)
                 ELSE LET final_answer == strip(resp[1])
                          s2 == Save([s1 EXCEPT !.tr.apiOk = TRUE], f.question, final_answer, io)
                      IN  IF io THEN Say(s2, "replace_last_line", "answer", final_answer)
                          ELSE Say(s2, "replace_last_line", "api_error", <<>>)

(* lines 428-443, on the session self.chat is by then; with no session the
   attribute access raises and the except branch shows the error *)
send_question_try(s, f, resp, io) ==
    LET s0 == Ran(s, f.handler)
    IN  IF s.chat = <<>> THEN Say(s0, "replace_last_line", "api_error", <<>>)
        ELSE LET s1 == [s0 EXCEPT !.tr.api = "send_message", !.tr.instr = s.chat[1].instr]
             IN  IF resp = <<>>
                 THEN Say(s1, "replace_last_line", "api_error", <<>>)
                 ELSE LET final_answer == strip(resp[1])
                          s2 == Save([s1 EXCEPT !.tr.apiOk = TRUE], f.question, final_answer, io)
                      IN  Say(s2, "replace_last_line", "answer", final_answer)

(* Mutant: the entry is saved, with an empty answer, when the call raised *)
generate_saving_failures(s, f, resp, io) ==
    LET s0 == Ran(s, f.handler)
    IN  IF ~s.client THEN Say(s0, "replace_last_line", "api_error", <<>>)
        ELSE LET s1 == [s0 EXCEPT !.tr.api = "generate_content"]
             IN  IF resp = <<>>
                 THEN Say(Save(s1, f.question, f.tag, io), "replace_last_line", "api_error", <<>>)
                 ELSE LET final == strip(resp[1])
                          answer == f.tag \o (IF f.cut THEN Take(final, PromptCut) \o Ellipsis
                                                       ELSE final)
                          s2 == Save([s1 EXCEPT !.tr.apiOk = TRUE], f.question, answer, io)
                      IN  Say(s2, "replace_last_line", "answer", final)

(* The try block shared by the one-shot handlers: generate_content on the
   client self.client is by then, save_chat_entry, result or error in place
   of the last line of the display *)
generate(s, f, resp, io) ==
    LET s0 == Ran(s, f.handler)
    IN  IF ~s.client THEN Say(s0, "replace_last_line", "api_error", <<>>)
        ELSE LET s1 == [s0 EXCEPT !.tr.api = "generate_content"]
             IN  IF resp = <<>>
                 THEN Say(s1, "replace_last_line", "api_error", <<>>)
                 ELSE LET final == strip(resp[1])
                          answer == f.tag \o (IF f.cut THEN Take(final, PromptCut) \o Ellipsis
                                                       ELSE final)
                          s2 == Save([s1 EXCEPT !.tr.apiOk = TRUE], f.question, answer, io)
                      IN  Say(s2, "replace_last_line", "answer", final)

handle_summarize(s, text_to_summarize) ==
    IF ~s.client \/ text_to_summarize = <<>>
    THEN Say(Ran(s, "handle_summarize"), "setText", "warn_empty", <<>>)
    ELSE Suspend(s, Frame("handle_summarize",
                          Tag(TagSummary, Request) \o Take(text_to_summarize, PromptCut)
                              \o Ellipsis,
                          Tag(TagSummary, Response), FALSE, <<>>))

handle_code_generation(s, prompt) ==
    IF ~s.client \/ prompt = <<>>
    THEN Say(Ran(s, "handle_code_generation"), "setText", "warn_empty", <<>>)
    ELSE Suspend(s, Frame("handle_code_generation",
                          Tag(TagCode, Request) \o Take(prompt, PromptCut) \o Ellipsis,
                          Tag(TagCode, Response), TRUE, <<>>))

handle_web_search(s, query) ==
    IF ~s.client \/ query = <<>>
    THEN Say(Ran(s, "handle_web_search"), "setText", "warn_empty", <<>>)
    ELSE Suspend(s, Frame("handle_web_search", Tag(TagWeb, Request) \o query,
                          Tag(TagWeb, Response), TRUE, <<>>))

handle_data_analysis(s, prompt) ==
    IF ~s.client \/ prompt = <<>>
    THEN Say(Ran(s, "handle_data_analysis"), "setText", "warn_empty", <<>>)
    ELSE Suspend(s, Frame("handle_data_analysis",
                          Tag(TagData, Request) \o Take(prompt, PromptCut) \o Ellipsis,
                          Tag(TagData, Response), TRUE, <<>>))

handle_agent_workflow(s, workflow_prompt) ==
    IF ~s.client \/ workflow_prompt = <<>>
    THEN Say(Ran(s, "handle_agent_workflow"), "setText", "warn_empty", <<>>)
    ELSE Suspend(s, Frame("handle_agent_workflow", Tag(TagWorkflow, Request) \o workflow_prompt,
                          Tag(TagWorkflow, Response), FALSE, <<>>))

(* lines 445-462; exists: os.path.exists(image_path) *)
handle_image_analysis(s, question, exists) ==
    IF ~s.client THEN Ran(s, "handle_image_analysis")
    ELSE LET image_path == strip(s.filePath)
         IN  IF image_path = <<>> \/ ~exists
             THEN Say(Ran(s, "handle_image_analysis"), "setText", "warn_no_image", <<>>)
             ELSE LET q == IF question = <<>> THEN DefaultImageQuestion ELSE question
                  IN  Suspend(s, Frame("handle_image_analysis", q, <<>>, FALSE, image_path))

(* what open(image_path, 'rb') and the reading of the file can do: return,
   raise FileNotFoundError, raise another exception (the path is a
   directory, no permission) *)
OpenOutcomes == {"ok", "not_found", "error"}

(* lines 464-504 *)
handle_image_analysis_try(s, f, opens, resp, io) ==
    LET s0 == Ran(s, f.handler)
    IN  IF opens = "not_found" THEN Say(s0, "append", "file_error", f.path)
        ELSE IF opens = "error" \/ ~s.client
        THEN Say(s0, "replace_last_line", "api_error", <<>>)
        ELSE LET s1 == [s0 EXCEPT !.tr.api = "generate_content"]
             IN  IF resp = <<>>
                 THEN Say(s1, "replace_last_line", "api_error", <<>>)
                 ELSE LET final_response == strip(resp[1])
                          s2 == Save([s1 EXCEPT !.tr.apiOk = TRUE],
                                     Tag(TagImage, Request) \o f.question,
                                     Tag(TagImage, Response) \o final_response, io)
                          s3 == Say(s2, "replace_last_line", "answer", final_response)
                      IN  [s3 EXCEPT !.filePath = <<>>]

(* the try block of the handler that waits with the local variables f *)
try_block(s, f, opens, resp, io) ==
    CASE f.handler = "send_question" -> send_question_try(s, f, resp, io)
      [] f.handler = "handle_image_analysis" -> handle_image_analysis_try(s, f, opens, resp, io)
      [] OTHER -> generate(s, f, resp, io)

search_history(s, search_term, io) ==
    IF search_term = <<>>
    THEN Say(Ran(s, "search_history"), "setText", "search_prompt", <<>>)
    ELSE LET results == search_history_by_keyword(s.history, search_term, io)
             s1 == Say(Ran(s, "search_history"), "setText", "search_header", search_term)
             s2 == [s1 EXCEPT !.tr.db = Append(@, "search_history_by_keyword"), !.tr.io = io,
                              !.tr.text = search_term, !.tr.rows = results]
         IN  Say(s2, "setText", IF results # <<>> THEN "search_hits" ELSE "search_none",
                 search_term)

display_current_facts(s, io) ==
    LET facts_map == get_user_facts_map(s.facts, io)
        s1 == [s EXCEPT !.tr.db = Append(@, "get_user_facts_map"), !.tr.io = io]
    IN  Say(s1, "setText", IF DOMAIN facts_map = {} THEN "facts_none" ELSE "facts_list", <<>>)

handle_fact_management(s, command, io, rd, ok) ==
    LET s0 == Ran(s, "handle_fact_management")
        command_parts == split1(command, " ")
        action == lower(command_parts[1])
    IN  IF command = <<>> \/ lower(strip(command)) \in ViewCommands
        THEN display_current_facts(s0, io)
        ELSE IF action = CmdAdd /\ Len(command_parts) > 1
        THEN LET kv == split1(command_parts[2], "=")
             IN  IF Len(kv) < 2
                 THEN Say(s0, "setText", "bad_format", <<>>)
                 ELSE LET key == kv[1]
                          value == kv[2]
                          r == add_or_update_fact(s0.facts, strip(key), strip(value), io)
                          s1 == [s0 EXCEPT !.facts = r.facts,
                                           !.tr.db = Append(@, "add_or_update_fact"),
                                           !.tr.io = io, !.tr.text = strip(key),
                                           !.tr.value = strip(value),
                                           !.tr.had = strip(key) \in Keys(s0.facts),
                                           !.tr.ret = <<r.ret>>]
                      IN  IF r.ret
                          THEN reset_chat_session(Say(s1, "setText", "fact_set", key), rd, ok)
                          ELSE Say(s1, "setText", "fact_set_failed", <<>>)
        ELSE IF action = KwDelete /\ Len(command_parts) > 1
        THEN LET key == strip(command_parts[2])
                 r == delete_fact(s0.facts, key, io)
                 s1 == [s0 EXCEPT !.facts = r.facts,
                                  !.tr.db = Append(@, "delete_fact"), !.tr.io = io,
                                  !.tr.text = key,
                                  !.tr.had = key \in Keys(s0.facts), !.tr.ret = <<r.ret>>]
             IN  IF r.ret
                 THEN reset_chat_session(Say(s1, "setText", "fact_deleted", key), rd, ok)
                 ELSE Say(s1, "setText", "fact_missing", key)
        ELSE IF action = CmdReset /\ Len(command_parts) = 1
        THEN reset_chat_session(s0, rd, ok)
        ELSE Say(s0, "setText", "help", <<>>)

(* The branch on the selected mode, lines 372-391 *)
by_mode(s, selected_mode, input_text, exists, io, rd, ok) ==
    CASE selected_mode = "chat" -> send_question(s, input_text)
      [] selected_mode = "search" -> search_history(s, input_text, io)
      [] selected_mode = "summarize" -> handle_summarize(s, input_text)
      [] selected_mode = "code" -> handle_code_generation(s, input_text)
      [] selected_mode = "web" -> handle_web_search(s, input_text)
      [] selected_mode = "facts" -> handle_fact_management(s, input_text, io, rd, ok)
      [] selected_mode = "data" -> handle_data_analysis(s, input_text)
      [] selected_mode = "image" -> handle_image_analysis(s, input_text, exists)
      [] selected_mode = "agent" -> handle_agent_workflow(s, input_text)
      [] OTHER -> Say(Ran(s, "no_mode"), "setText", "select_mode", <<>>)

HasUndoKeyword(text) == \E keyword \in UndoKeywords : Contains(text, keyword)

(* Mutant: the undo keywords are looked for in chat mode only *)
dispatch_undo_in_chat_only(s, selected_mode, input_text, exists, io, rd, ok) ==
    IF ~s.client THEN Say(Ran(s, "not_initialised"), "setText", "not_initialised", <<>>)
    ELSE IF input_text # <<>> /\ HasUndoKeyword(input_text) /\ selected_mode = "chat"
    THEN app_delete_last_entry(s, io)
    ELSE by_mode(s, selected_mode, input_text, exists, io, rd, ok)

(* handle_action after it has read the input and the mode, lines 364-391 *)
dispatch(s, selected_mode, input_text, exists, io, rd, ok) ==
    IF ~s.client THEN Say(Ran(s, "not_initialised"), "setText", "not_initialised", <<>>)
    ELSE IF input_text # <<>> /\ HasUndoKeyword(input_text)
    THEN app_delete_last_entry(s, io)
    ELSE by_mode(s, selected_mode, input_text, exists, io, rd, ok)

----------------------------------------------------------------------------
(* Inputs of the model                                                     *)

TCat == <<"c", "a", "t">>
TCats == <<"c", "a", "t", "s">>

(* What the user may have typed into lineEdit when the action fires: a
   prompt, an undo phrase or, in fact-management mode, a command *)
Prompts == { <<>>, <<" ", "\r">>, <<" ">> \o TCat \o <<" ">> }

UndoPhrases == { TCat \o <<" ">> \o KwCancel, KwErase, KwDelete \o <<" ", "k">> }

FactCommands ==
    { <<" ">>,
      CmdAdd \o <<" ", "k", "=", "v">>,
      CmdAdd \o <<" ", "k">>,
      CmdAdd \o <<" ">> \o KwCancel,
      <<"L", "I", "S", "T">>,
      CmdReset }

InputsFor(m) == Prompts \cup UndoPhrases \cup (IF m = "facts" THEN FactCommands ELSE {})

(* response.text of a call that returned *)
Replies == { <<" ">> \o TCats }

ApiOutcomes == {<<>>} \cup {<<t>> : t \in Replies}

(* How the calls of one action in mode m can turn out, up to the point
   where its handler returns or waits in processEvents.  An outcome that no
   handler of the mode consults is held fixed. *)
OutcomesFor(m) ==
    { o \in [io : BOOLEAN, rd : BOOLEAN, ok : BOOLEAN, exists : BOOLEAN] :
        /\ (m # "facts" => o.ok /\ o.rd)
        /\ (m # "image" => o.exists) }

(* How the calls of the try block of a handler can turn out *)
TryOutcomesFor(handler) ==
    { o \in [resp : ApiOutcomes, io : BOOLEAN, opens : OpenOutcomes] :
        /\ (handler # "handle_image_analysis" => o.opens = "ok")
        /\ (o.resp = <<>> => o.io)
        /\ (o.opens # "ok" => o.resp = <<>>) }

Files == { <<"i", ".", "p", "n", "g">> }

(* contents of the database file left by earlier runs: table, sqlite_sequence *)
OldRow == [id |-> 1, question |-> TCat, answer |-> TCats, created_at |-> 0]
InitStores == { [history |-> <<>>, seq |-> 0], [history |-> <<OldRow>>, seq |-> 2] }
InitFacts == { <<>>, <<[key |-> <<"k">>, value |-> <<"w">>]>> }

----------------------------------------------------------------------------
(* The application                                                         *)

Init ==
    /\ \E st \in InitStores : history = st.history /\ seq = st.seq
    /\ issued = 1..seq
    /\ facts \in InitFacts
    /\ now = TicksPerSecond
    /\ apiKey \in BOOLEAN
    /\ \E rd \in BOOLEAN, ok \in BOOLEAN :
          LET s == init_gemini_client(
                      [client |-> FALSE, chat |-> <<>>,
                       user_facts |-> get_contextual_facts(facts, rd)], ok)
          IN  /\ client = s.client
              /\ chat = s.chat
              /\ user_facts = s.user_facts
    /\ mode = "chat"
    /\ filePath = <<>>
    /\ display = IF client THEN <<Show("setText", "welcome", <<>>)>> ELSE <<>>
    /\ stack = <<>>
    /\ last = [Blank EXCEPT !.act = "init"]
    /\ budget = MaxOps

Apply(out) ==
    /\ history' = out.history
    /\ seq' = out.seq
    /\ issued' = issued \cup Ids(out.history)
    /\ facts' = out.facts
    /\ client' = out.client
    /\ chat' = out.chat
    /\ user_facts' = out.user_facts
    /\ filePath' = out.filePath
    /\ display' = out.display

(* An event is dispatched by the event loop or, while a handler waits in
   processEvents, inside that call, which finds at most MaxWaiting events
   waiting; the field events of the waiting handler counts them *)
CanDispatch == IF stack = <<>> THEN TRUE ELSE stack[Len(stack)].events < MaxWaiting

Dispatched(st) == IF st = <<>> THEN st ELSE [st EXCEPT ![Len(st)].events = @ + 1]

(* pushButton.clicked / lineEdit.returnPressed *)
handle_action ==
    /\ budget > 0
    /\ CanDispatch
    /\ \E raw \in InputsFor(mode), o \in OutcomesFor(mode) :
          LET input_text == strip(raw)
              out == dispatch(Cur, mode, input_text, o.exists, o.io, o.rd, o.ok)
          IN  /\ Apply(out)
              /\ stack' = IF out.pending = <<>> THEN Dispatched(stack)
                          ELSE Append(Dispatched(stack),
                                      [out.pending[1] EXCEPT !.input = input_text])
              /\ last' = [out.tr EXCEPT !.act = "handle_action", !.input = input_text]
    /\ budget' = budget - 1
    /\ UNCHANGED <<now, apiKey, mode>>

(* processEvents returns to the innermost waiting handler, which goes on
   with its try block *)
after_processEvents ==
    /\ stack # <<>>
    /\ LET f == stack[Len(stack)]
       IN  \E o \in TryOutcomesFor(f.handler) :
              LET out == try_block(Cur, f, o.opens, o.resp, o.io)
              IN  /\ Apply(out)
                  /\ last' = [out.tr EXCEPT !.act = "try_block", !.input = f.input]
    /\ stack' = SubSeq(stack, 1, Len(stack) - 1)
    /\ UNCHANGED <<now, apiKey, mode, budget>>

(* Mutant: a change of mode tries once more to create the client *)
update_ui_visibility_retrying_client ==
    /\ CanDispatch
    /\ stack' = Dispatched(stack)
    /\ \E m \in Modes \ {mode} :
          /\ mode' = m
          /\ filePath' = IF m \in FileModes THEN filePath ELSE <<>>
    /\ \E ok \in BOOLEAN :
          LET s == IF client THEN Cur ELSE init_gemini_client(Cur, ok)
          IN  client' = s.client /\ chat' = s.chat
    /\ display' = Cur.display
    /\ last' = [Blank EXCEPT !.act = "update_ui_visibility"]
    /\ UNCHANGED <<history, seq, issued, facts, now, apiKey, user_facts, budget>>

(* comboBox.currentIndexChanged *)
update_ui_visibility ==
    /\ CanDispatch
    /\ stack' = Dispatched(stack)
    /\ \E m \in Modes \ {mode} :
          /\ mode' = m
          /\ filePath' = IF m \in FileModes THEN filePath ELSE <<>>
    /\ display' = Cur.display
    /\ last' = [Blank EXCEPT !.act = "update_ui_visibility"]
    /\ UNCHANGED <<history, seq, issued, facts, now, apiKey, client, chat, user_facts,
                   budget>>

(* pushButton_2.clicked, shown in the two file modes, with a file picked *)
handle_upload_file ==
    /\ mode \in FileModes
    /\ CanDispatch
    /\ stack' = Dispatched(stack)
    /\ \E file_path \in Files :
          /\ filePath' = file_path
          /\ display' = Append(Cur.display, Show("append", "file_set", file_path))
    /\ last' = [Blank EXCEPT !.act = "handle_upload_file"]
    /\ UNCHANGED <<history, seq, issued, facts, now, apiKey, client, chat, user_facts,
                   mode, budget>>

(* time passes *)
Tick ==
    /\ now < TicksPerSecond + MaxElapsed
    /\ now' = now + 1
    /\ UNCHANGED <<history, seq, issued, facts, apiKey, client, chat, user_facts,
                   mode, filePath, display, stack, last, budget>>

Next ==
    \/ handle_action
    \/ after_processEvents
    \/ update_ui_visibility
    \/ handle_upload_file
    \/ Tick

Spec == Init /\ [][Next]_vars

----------------------------------------------------------------------------
(* The store on its own: the methods of SQLiteChatDatabase called directly *)

TAboutCats == <<"B", " ", "a", "b", "o", "u", "t", " ", "c", "a", "t", "s">>

StoreEntries ==
    { [question |-> <<"A">>, answer |-> <<"x">>],
      [question |-> TAboutCats, answer |-> <<"x">>],
      [question |-> <<"C">>, answer |-> <<"x">>],
      [question |-> <<"E'">>, answer |-> TCats] }

Keywords == { <<>>, TCat, <<"C", "A", "T">>, <<"_">>, <<"e'">> }

FactKeys == { <<"k">>, <<"j">> }
FactValues == { <<"v">>, <<"w">> }

(* a table of n rows written in one second, as SearchLimit needs to be met *)
BulkRows(n, question, answer, at) ==
    [i \in 1..n |-> [id |-> i, question |-> question, answer |-> answer, created_at |-> at]]

StoreInitStores ==
    { [history |-> <<>>, seq |-> 0],
      [history |-> <<[id |-> 1, question |-> <<"A">>, answer |-> <<"x">>, created_at |-> 0],
                     [id |-> 3, question |-> TAboutCats, answer |-> <<"x">>, created_at |-> 1]>>,
       seq |-> 4],
      [history |-> BulkRows(SearchLimit, TCat, <<"x">>, 1), seq |-> SearchLimit] }

StoreInit ==
    /\ \E st \in StoreInitStores : history = st.history /\ seq = st.seq
    /\ issued = 1..seq
    /\ facts \in InitFacts
    /\ now = TicksPerSecond
    /\ apiKey = FALSE
    /\ client = FALSE
    /\ chat = <<>>
    /\ user_facts = GenericInstruction
    /\ mode = "chat"
    /\ filePath = <<>>
    /\ display = <<>>
    /\ stack = <<>>
    /\ last = [Blank EXCEPT !.act = "init"]
    /\ budget = MaxOps

StoreStep ==
    /\ budget > 0
    /\ budget' = budget - 1
    /\ issued' = issued \cup Ids(history')
    /\ UNCHANGED <<now, apiKey, client, chat, user_facts, mode, filePath, display, stack>>

db_save_chat_entry ==
    /\ \E e \in StoreEntries, io \in BOOLEAN :
          LET out == Save(Cur, e.question, e.answer, io)
          IN  /\ history' = out.history
              /\ seq' = out.seq
              /\ last' = [out.tr EXCEPT !.act = "save_chat_entry"]
    /\ UNCHANGED facts
    /\ StoreStep

db_delete_last_entry ==
    /\ \E io \in BOOLEAN :
          LET r == delete_last_entry(history, io)
          IN  /\ history' = r.history
              /\ last' = [Blank EXCEPT !.act = "delete_last_entry", !.io = io, !.ret = r.ret]
    /\ UNCHANGED <<seq, facts>>
    /\ StoreStep

db_search_history_by_keyword ==
    /\ \E keyword \in Keywords, io \in BOOLEAN :
          last' = [Blank EXCEPT !.act = "search_history_by_keyword", !.text = keyword,
                                !.io = io,
                                !.rows = search_history_by_keyword(history, keyword, io),
                                !.appended = last.appended]
    /\ UNCHANGED <<history, seq, facts>>
    /\ StoreStep

db_add_or_update_fact ==
    /\ \E key \in FactKeys, value \in FactValues, io \in BOOLEAN :
          LET r == add_or_update_fact(facts, key, value, io)
          IN  /\ facts' = r.facts
              /\ last' = [Blank EXCEPT !.act = "add_or_update_fact", !.text = key,
                                       !.value = value, !.io = io, !.ret = <<r.ret>>,
                                       !.had = key \in Keys(facts)]
    /\ UNCHANGED <<history, seq>>
    /\ StoreStep

db_delete_fact ==
    /\ \E key \in FactKeys, io \in BOOLEAN :
          LET r == delete_fact(facts, key, io)
          IN  /\ facts' = r.facts
              /\ last' = [Blank EXCEPT !.act = "delete_fact", !.text = key, !.io = io,
                                       !.ret = <<r.ret>>, !.had = key \in Keys(facts)]
    /\ UNCHANGED <<history, seq>>
    /\ StoreStep

db_get_contextual_facts ==
    /\ \E io \in BOOLEAN :
          last' = [Blank EXCEPT !.act = "get_contextual_facts", !.io = io,
                                !.value = get_contextual_facts(facts, io)]
    /\ UNCHANGED <<history, seq, facts>>
    /\ StoreStep

StoreNext ==
    \/ db_save_chat_entry
    \/ db_delete_last_entry
    \/ db_search_history_by_keyword
    \/ db_add_or_update_fact
    \/ db_delete_fact
    \/ db_get_contextual_facts
    \/ Tick

StoreSpec == StoreInit /\ [][StoreNext]_vars

----------------------------------------------------------------------------
(* Properties                                                              *)

(* a step that is one operation: a user action, or one call on the store *)
Operated == budget' < budget

(* the step in which handle_action runs, up to its return or up to the
   processEvents call of the handler it chose *)
Began == Operated /\ last'.act = "handle_action"

(* the step in which a waiting handler runs its try block *)
Returned == Len(stack') < Len(stack)

(* the calls the step makes on the display *)
Written ==
    IF stack = <<>> THEN display' ELSE SubSeq(display', Len(display) + 1, Len(display'))

Acted == last.act = "handle_action"

Tried == last.act = "try_block"

Rows(h) == {h[i] : i \in 1..Len(h)}

(* C1: whenever a chat-mode turn is sent to the open session, the system
   instruction that session was opened with is the context instruction
   built from what the fact table holds now. *)
C1_TurnSeesCurrentFacts ==
    (Tried /\ last.api = "send_message") => last.instr = get_contextual_facts(facts, TRUE)

(* C2 as stated: in every mode an input containing an undo keyword makes the
   action call delete_last_entry and nothing else: no API call, no other
   store call. *)
C2_UndoOverridesEveryAction ==
    (Acted /\ HasUndoKeyword(last.input)) =>
        /\ last.handler = "delete_last_entry"
        /\ last.db = <<"delete_last_entry">>
        /\ last.api = "none"

(* C2 amended: with the client present, in every mode an input containing an
   undo keyword makes the action call delete_last_entry, which deletes the
   most recent history row unless its database call fails, and do nothing
   else: no API call, no change of the fact table, no history row added, no
   session rebuilt, no handler left waiting. *)
C2_UndoOverridesWithClient ==
    [][(Began /\ HasUndoKeyword(last'.input) /\ client) =>
          /\ last'.handler = "delete_last_entry"
          /\ last'.db = <<"delete_last_entry">>
          /\ last'.api = "none"
          /\ ~last'.reset
          /\ Len(stack') = Len(stack)
          /\ facts' = facts /\ chat' = chat /\ client' = client
          /\ Rows(history') \subseteq Rows(history)
          /\ ((history # <<>> /\ last'.io) => Len(history') = Len(history) - 1)
          /\ (~last'.io => history' = history)]_vars

(* the override taken outside chat mode, with a row to delete *)
C2_Witness ==
    /\ Acted /\ HasUndoKeyword(last.input)
    /\ mode = "facts"
    /\ last.handler = "delete_last_entry"
    /\ last.ret # <<>>

(* C3: in a running application, a fact-management action whose input is
   the delete command followed by a key removes that key from the fact
   table, tells the display whether the key was there, leaves the history
   table as it was and, when a row went, rebuilds the session. *)
C3_FactDeleteCommand ==
    [][(/\ Began /\ client /\ mode = "facts" /\ last'.io
        /\ IsPrefix(KwDelete \o <<" ">>, last'.input)) =>
          LET key == strip(SubSeq(last'.input, Len(KwDelete) + 2, Len(last'.input)))
          IN  /\ key \notin Keys(facts')
              /\ history' = history
              /\ \E i \in 1..Len(Written) :
                    Written[i].msg = IF key \in Keys(facts) THEN "fact_deleted"
                                                             ELSE "fact_missing"
              /\ (key \in Keys(facts) => last'.reset)]_vars

(* C4: search_history_by_keyword with the empty keyword returns no rows. *)
C4_EmptyKeywordFindsNothing ==
    (last.act = "search_history_by_keyword" /\ last.text = <<>>) => last.rows = <<>>

(* the match the description gives: the keyword occurs in the text, letter
   case aside *)
ContainsIgnoringCase(text, keyword) == Contains(lower(text), lower(keyword))

SortedNewestFirst(rows) ==
    \A i, j \in 1..Len(rows) : i < j => rows[i].created_at >= rows[j].created_at

(* C5: for a non-empty keyword a search whose database call goes through
   returns exactly the rows whose question or answer contains the keyword
   as a substring, letter case aside, newest created_at first, cut to the
   first 50. *)
C5_SearchIsSubstringMatch ==
    (last.act = "search_history_by_keyword" /\ last.text # <<>> /\ last.io) =>
        LET matching == {i \in 1..Len(history) :
                            \/ ContainsIgnoringCase(history[i].question, last.text)
                            \/ ContainsIgnoringCase(history[i].answer, last.text)}
        IN  /\ \A k \in 1..Len(last.rows) : \E i \in matching : last.rows[k] = Shown(history[i])
            /\ Len(last.rows) = IF Cardinality(matching) < SearchLimit
                                THEN Cardinality(matching) ELSE SearchLimit
            /\ SortedNewestFirst(last.rows)

(* a search that directly follows a successful append, for a keyword that
   occurs in the appended question *)
SearchedAfterAppend ==
    /\ last.act = "search_history_by_keyword"
    /\ last.appended # <<>>
    /\ Contains(last.appended[1].question, last.text)

NewEntryReturned == \E k \in 1..Len(last.rows) : last.rows[k] = Shown(last.appended[1])

NewEntryNotAfterOlder ==
    \A k, n \in 1..Len(last.rows) :
        (last.rows[n] = Shown(last.appended[1])
           /\ last.rows[k].created_at < last.appended[1].created_at) => n < k

(* C6 as stated: append followed at once by a search for any substring of
   the question returns the new entry, and no strictly older entry comes
   before it. *)
C6_AppendThenSearchFindsIt ==
    SearchedAfterAppend => (NewEntryReturned /\ NewEntryNotAfterOlder)

(* rows stored before the new one that the search matches and that are not
   older than the new one *)
NotOlderMatches ==
    LET pattern == <<"%">> \o last.text \o <<"%">>
    IN  {i \in 1..Len(history) :
            /\ history[i].id # last.appended[1].id
            /\ history[i].created_at >= last.appended[1].created_at
            /\ (LikeMatch(pattern, history[i].question) \/ LikeMatch(pattern, history[i].answer))}

(* C6 amended: append followed at once by a search for any substring of the
   question returns the new entry provided the database call of the search
   goes through and fewer than 50 of the rows stored before the new one
   match the search and carry a created_at not older than its own; a search
   whose database call fails returns no row; and where the new entry is
   returned, no strictly older entry comes before it. *)
C6_AppendThenSearchWithinLimit ==
    SearchedAfterAppend =>
        /\ ((last.io /\ Cardinality(NotOlderMatches) < SearchLimit) => NewEntryReturned)
        /\ (~last.io => last.rows = <<>>)
        /\ NewEntryNotAfterOlder

(* the new entry returned ahead of an older row *)
C6_Witness ==
    /\ SearchedAfterAppend
    /\ NewEntryReturned
    /\ \E k \in 1..Len(last.rows) : last.rows[k].created_at < last.appended[1].created_at

(* C7: ids grow along the table in insertion order, and an append never
   hands out an id that was handed out before, whether or not its row is
   still there. *)
C7_IdsNeverReused ==
    /\ [](\A i, j \in 1..Len(history) : i < j => history[i].id < history[j].id)
    /\ [][(Operated /\ Len(history') > Len(history)) =>
             /\ history' = Append(history, history'[Len(history')])
             /\ \A id \in issued : id < history'[Len(history')].id]_vars

(* an append made while an id handed out earlier is no longer in the table *)
C7_Witness ==
    /\ last.act = "save_chat_entry" /\ last.appended # <<>>
    /\ \E id \in issued : id \notin Ids(history)

(* what delete_last_entry does when its statements go through *)
MostRecentDeleted ==
    /\ (history = <<>> => last'.ret = <<>> /\ history' = <<>>)
    /\ (history # <<>> =>
          \E i \in 1..Len(history) :
              /\ \A j \in 1..Len(history) : history[j].id <= history[i].id
              /\ last'.ret = <<history[i].id>>
              /\ history' = SubSeq(history, 1, i - 1) \o SubSeq(history, i + 1, Len(history)))
    /\ (last.appended # <<>> =>
          /\ last'.ret = <<last.appended[1].id>>
          /\ last.appended[1] \notin Rows(history')
          /\ history' = SubSeq(history, 1, Len(history) - 1))

(* C8 as stated: delete_last_entry removes the one row with the largest id
   and returns that id, every other row staying as it was; directly after
   an append that is the appended row; on an empty table it returns nothing
   and the table stays empty. *)
C8_DeleteMostRecent ==
    [][(Operated /\ last'.act = "delete_last_entry") => MostRecentDeleted]_vars

(* C8 amended: the same of a call whose statements on the database go
   through; a call whose statements fail returns nothing and leaves every
   row as it was. *)
C8_DeleteMostRecentUnlessFailed ==
    [][(Operated /\ last'.act = "delete_last_entry") =>
          IF last'.io THEN MostRecentDeleted
          ELSE last'.ret = <<>> /\ history' = history]_vars

(* the newest of several rows deleted *)
C8_Witness ==
    /\ last.act = "delete_last_entry"
    /\ last.io
    /\ last.ret # <<>>
    /\ history # <<>>

OneRowPerKey == \A i, j \in 1..Len(facts) : facts[i].key = facts[j].key => i = j

OtherRows(f, key) == LET other(r) == r.key # key IN SelectSeq(f, other)

(* what add_or_update_fact does when its statement goes through *)
FactRowWritten ==
    /\ last'.ret = <<TRUE>>
    /\ Cardinality({i \in 1..Len(facts') : facts'[i].key = last'.text}) = 1
    /\ \E i \in 1..Len(facts') :
          facts'[i] = [key |-> last'.text, value |-> last'.value]
    /\ OtherRows(facts', last'.text) = OtherRows(facts, last'.text)

(* C9 as stated: the fact table never holds two rows of one key, and an
   upsert of a key leaves exactly one row of that key, holding the value
   written, and the rows of all other keys as they were. *)
C9_UpsertKeepsOneRowPerKey ==
    /\ []OneRowPerKey
    /\ [][(Operated /\ last'.act = "add_or_update_fact") => FactRowWritten]_vars

(* C9 amended: the fact table never holds two rows of one key; an upsert
   whose statement on the database goes through returns success and leaves
   exactly one row of the key, holding the value written, and the rows of
   all other keys as they were; an upsert whose statement fails returns
   failure and leaves the table as it was, so a key keeps the value it had
   or stays without a row. *)
C9_UpsertUnlessFailed ==
    /\ []OneRowPerKey
    /\ [][(Operated /\ last'.act = "add_or_update_fact") =>
             IF last'.io THEN FactRowWritten
             ELSE last'.ret = <<FALSE>> /\ facts' = facts]_vars

(* an upsert of a key that had a row, next to the row of another key *)
C9_Witness ==
    /\ last.act = "add_or_update_fact" /\ last.io /\ last.had
    /\ Cardinality(Keys(facts)) = 2

(* what delete_fact does when its statement goes through *)
FactRowDeleted ==
    /\ (last'.text \notin Keys(facts) => last'.ret = <<FALSE>> /\ facts' = facts)
    /\ (last'.text \in Keys(facts) =>
          /\ last'.ret = <<TRUE>>
          /\ last'.text \notin Keys(facts')
          /\ facts' = OtherRows(facts, last'.text)
          /\ Len(facts') = Len(facts) - 1)

(* C10 as stated: delete_fact of a key without a row returns false and
   leaves the table as it was; of a key with a row it returns true and
   removes that row and no other. *)
C10_DeleteFact ==
    [][(Operated /\ last'.act = "delete_fact") => FactRowDeleted]_vars

(* C10 amended: the same of a call whose statement on the database goes
   through; a call whose statement fails returns false and leaves the table
   as it was, whether or not the key has a row. *)
C10_DeleteFactUnlessFailed ==
    [][(Operated /\ last'.act = "delete_fact") =>
          IF last'.io THEN FactRowDeleted
          ELSE last'.ret = <<FALSE>> /\ facts' = facts]_vars

(* a row deleted from under another key's row *)
C10_Witness ==
    /\ last.act = "delete_fact" /\ last.had /\ last.io
    /\ last.ret = <<TRUE>>
    /\ facts # <<>>

(* C11: get_contextual_facts returns the generic instruction exactly when
   user_facts has no row, and otherwise a text that contains the key and
   the value of every row *)
C11_ContextInstruction ==
    last.act = "get_contextual_facts" =>
        /\ (last.value = GenericInstruction <=> facts = <<>>)
        /\ \A i \in 1..Len(facts) :
              /\ Contains(last.value, facts[i].key)
              /\ Contains(last.value, facts[i].value)

(* an add command of fact management with no "=" after the command word *)
AddWithoutEquals(input_text) ==
    LET command_parts == split1(input_text, " ")
    IN  /\ Len(command_parts) > 1
        /\ lower(command_parts[1]) = CmdAdd
        /\ ~Contains(command_parts[2], <<"=">>)

FactsAndSessionKept ==
    /\ facts' = facts
    /\ client' = client
    /\ chat' = chat
    /\ user_facts' = user_facts

BadFormatShown ==
    /\ last'.handler = "handle_fact_management"
    /\ Written = <<Show("setText", "bad_format", <<>>)>>
    /\ last'.db = <<>>

(* C12 as stated: in fact-management mode an add command without "=" shows
   the invalid-format error and leaves user_facts and the session as they
   were *)
C12_AddWithoutEqualsRejected ==
    [][Began /\ mode = "facts" /\ AddWithoutEquals(last'.input)
       => BadFormatShown /\ FactsAndSessionKept]_vars

(* C12 amended: user_facts and the session are left as they were in every
   case; the invalid-format error is shown when there is a client and the
   text holds no undo keyword, the not-initialised error when there is no
   client, and otherwise the undo override runs *)
C12_AddWithoutEqualsOutcome ==
    [][Began /\ mode = "facts" /\ AddWithoutEquals(last'.input)
       => /\ FactsAndSessionKept
          /\ IF ~client
             THEN Written = <<Show("setText", "not_initialised", <<>>)>> /\ last'.db = <<>>
             ELSE IF HasUndoKeyword(last'.input)
             THEN last'.handler = "delete_last_entry" /\ last'.db = <<"delete_last_entry">>
             ELSE BadFormatShown]_vars

C12_Witness ==
    /\ Acted
    /\ mode = "facts"
    /\ AddWithoutEquals(last.input)
    /\ last.handler = "handle_fact_management"
    /\ display = <<Show("setText", "bad_format", <<>>)>>
    /\ facts # <<>>
    /\ chat # <<>>

(* the modes whose handlers write the exchange to chat_history *)
PersistingModes == {"chat", "summarize", "code", "web", "data", "image", "agent"}

OneRowAppended ==
    /\ Len(history') = Len(history) + 1
    /\ SubSeq(history', 1, Len(history)) = history

NoRowAppended == Rows(history') \subseteq Rows(history)

(* C13 as stated: an action in a persisting mode appends exactly one row to
   chat_history if and only if its API call succeeded, and an action in
   search mode neither appends nor deletes a row.  The action of a
   persisting mode is the step up to processEvents, which makes no API
   call, and the try block. *)
C13_RowAppendedIffApiSucceeded ==
    [][/\ Returned => (OneRowAppended <=> last'.apiOk)
       /\ (Began /\ mode \in PersistingModes) => ~OneRowAppended
       /\ (Began /\ mode = "search") => history' = history]_vars

(* C13 amended: the try block of an action in a persisting mode appends
   exactly one row if and only if its API call succeeded and the INSERT
   went through, and otherwise leaves chat_history as it was; before its
   try block the action appends no row; an action in search mode never
   appends a row and deletes one only by the undo override, on an input
   with an undo keyword *)
C13_RowAppendedIffApiAndWriteSucceeded ==
    [][/\ Returned =>
             /\ OneRowAppended <=> (last'.apiOk /\ last'.io)
             /\ ~OneRowAppended => history' = history
       /\ (Began /\ mode \in PersistingModes) => NoRowAppended
       /\ (Began /\ mode = "search") =>
             /\ NoRowAppended
             /\ history' # history =>
                   /\ client
                   /\ HasUndoKeyword(last'.input)
                   /\ last'.handler = "delete_last_entry"]_vars

C13_Witness ==
    /\ Tried
    /\ last.handler = "handle_summarize"
    /\ last.apiOk
    /\ last.io
    /\ last.appended # <<>>
    /\ history # <<>>
    /\ history[Len(history)] = last.appended[1]

(* C14: a data-analysis action calls generate_content only when the input
   is non-empty and a file is attached; with no file attached it makes no
   API call and writes no row to chat_history *)
C14_DataAnalysisNeedsFile ==
    [][(Returned /\ last'.handler = "handle_data_analysis")
       => /\ last'.api # "none" => (last'.input # <<>> /\ strip(filePath) # <<>>)
          /\ strip(filePath) = <<>> => (last'.api = "none" /\ history' = history)]_vars

(* no client exactly when no session, and neither without an API key *)
ClientAndSessionTogether ==
    /\ client <=> chat # <<>>
    /\ ~apiKey => ~client

NothingStoredOrSent ==
    /\ history' = history
    /\ seq' = seq
    /\ facts' = facts
    /\ last'.api = "none"
    /\ last'.db = <<>>

(* what a handler that waited in processEvents while the client was lost
   puts on the display *)
ErrorWritten ==
    /\ Len(Written) = 1
    /\ Written[1].msg \in {"api_error", "file_error"}

(* C15: with the API key missing or the client construction failed there is
   neither a client nor a session, and every later action only puts the
   not-initialised error on the display: nothing is called, stored or
   changed, and the application takes further actions.  A handler that was
   waiting in processEvents when the client was lost puts its error message
   on the display and calls nothing. *)
C15_DegradedWithoutClient ==
    [][/\ ClientAndSessionTogether
       /\ ClientAndSessionTogether'
       /\ (Began /\ ~client) =>
             /\ Written = <<Show("setText", "not_initialised", <<>>)>>
             /\ ~client' /\ chat' = <<>>
             /\ NothingStoredOrSent
       /\ (Returned /\ ~client) =>
             /\ ErrorWritten
             /\ ~client' /\ chat' = <<>>
             /\ NothingStoredOrSent]_vars

C15_Witness ==
    /\ Acted
    /\ apiKey
    /\ ~client
    /\ chat = <<>>
    /\ mode = "chat"
    /\ last.input # <<>>
    /\ last.handler = "not_initialised"
    /\ display = <<Show("setText", "not_initialised", <<>>)>>

(* the one call a try block makes on the display when the API answered:
   the answer put in place of the last line *)
AnswerShown(d) == \E r \in Replies : d = <<Show("replace_last_line", "answer", strip(r))>>

(* C16: when the API call of an action succeeded and the INSERT into
   chat_history failed, the answer is still put on the display, the action
   ends normally and no row is written *)
C16_AnswerShownWhenSaveFails ==
    [][Returned /\ last'.apiOk /\ ~last'.io
       => /\ AnswerShown(Written)
          /\ history' = history
          /\ client' = client /\ chat' = chat]_vars

C16_Witness ==
    /\ Tried
    /\ last.handler = "send_question"
    /\ last.apiOk
    /\ ~last.io
    /\ last.db = <<"save_chat_entry">>
    /\ Len(display) = 2
    /\ display[1].msg = "placeholder"
    /\ display[2].msg = "answer"

(* C17: when the INSERT of save_chat_entry fails during a handler, the
   handler puts a message about the failure on the display, something
   besides the answer *)
C17_SaveFailureOnDisplay ==
    [][Returned /\ last'.db = <<"save_chat_entry">> /\ ~last'.io
       => \E i \in 1..Len(Written) : Written[i].msg # "answer"]_vars

SessionChanged ==
    \/ chat' # chat
    \/ client' # client
    \/ user_facts' # user_facts

(* C18: the session and its system instruction change only in
   reset_chat_session, which runs only in fact management, on the reset
   command or after a fact was written or deleted; every other action, its
   try block included, the undo override and the other fact-management
   commands leave them alone *)
C18_SessionChangesOnlyInReset ==
    [][/\ SessionChanged => (Began /\ last'.reset)
       /\ (Operated /\ last'.reset)
          => /\ mode = "facts"
             /\ last'.handler = "handle_fact_management"
             /\ ~HasUndoKeyword(last'.input)
             /\ \/ /\ lower(last'.input) = CmdReset
                   /\ last'.db = <<"get_contextual_facts">>
                \/ /\ last'.db = <<"add_or_update_fact", "get_contextual_facts">>
                   /\ last'.ret = <<TRUE>>
                \/ /\ last'.db = <<"delete_fact", "get_contextual_facts">>
                   /\ last'.ret = <<TRUE>>]_vars

C18_Witness ==
    /\ Tried
    /\ last.handler = "handle_image_analysis"
    /\ last.api = "generate_content"
    /\ last.apiOk
    /\ ~last.reset
    /\ chat = <<[instr |-> user_facts]>>

(* a text with a character that is not white space *)
NonBlank(t) == \E j \in 1..Len(t) : t[j] \notin Whitespace

(* C19: whatever actions were taken, every row of chat_history has a
   question that is not empty once trimmed *)
C19_QuestionsNonBlank == \A i \in 1..Len(history) : NonBlank(history[i].question)

C19_Witness ==
    /\ Tried
    /\ last.handler = "send_question"
    /\ last.appended # <<>>
    /\ Len(history) >= 2
    /\ history[Len(history)].question = TCat

(* C20: when the send_message or generate_content call of an action raises,
   the error message takes the place of the placeholder, which is the last
   thing put on the display before it, and chat_history, user_facts and the
   session stay as they were *)
C20_ApiFailureLeavesStateAlone ==
    [][Returned /\ last'.api # "none" /\ ~last'.apiOk
       => /\ Written = <<Show("replace_last_line", "api_error", <<>>)>>
          /\ display[Len(display)] =
                Show("append", "placeholder", stack[Len(stack)].question)
          /\ history' = history /\ seq' = seq
          /\ facts' = facts
          /\ client' = client /\ chat' = chat /\ user_facts' = user_facts
          /\ last'.db = <<>>]_vars

(* C21: once there is no client there never is one again: from then on no
   step changes chat_history, user_facts or the session, and every action,
   in whatever mode and with whatever input, only puts the not-initialised
   error on the display.  A handler that was waiting in processEvents when
   the client was lost puts its error message on the display and calls
   nothing. *)
C21_ClientNeverRestored ==
    [][~client
       => /\ ~client'
          /\ chat' = chat /\ user_facts' = user_facts
          /\ history' = history /\ seq' = seq
          /\ facts' = facts
          /\ Operated => /\ last'.act = "handle_action"
                          /\ last'.handler = "not_initialised"
                          /\ Written = <<Show("setText", "not_initialised", <<>>)>>
                          /\ Len(stack') = Len(stack)
                          /\ last'.api = "none"
                          /\ last'.db = <<>>
          /\ Returned => /\ ErrorWritten
                          /\ last'.api = "none"
                          /\ last'.db = <<>>]_vars

(* the client was lost in this run, when the session was rebuilt after fact
   k was set to v, and a later undo phrase in search mode met the error *)
C21_Witness ==
    /\ Acted
    /\ apiKey
    /\ ~client
    /\ chat = <<>>
    /\ facts = <<[key |-> <<"k">>, value |-> <<"v">>]>>
    /\ mode = "search"
    /\ HasUndoKeyword(last.input)
    /\ last.handler = "not_initialised"
    /\ display = <<Show("setText", "not_initialised", <<>>)>>

====
